---- MODULE Spec2Model ----
(***************************************************************************)
(* Model of sherpa/database.py: the controller-side Database object (store *)
(* supervision, trial queue, result collection, stop requests) and the     *)
(* worker-side Client (get_trial, send_metrics), communicating through the *)
(* three Mongo collections db.trials, db.results and db.stop.              *)
(*                                                                         *)
(* Python values are represented as follows.                               *)
(*   None / unset            the empty sequence << >> (or the record None  *)
(*                           for the process handle)                       *)
(*   a dict                  a sequence of <<key, value>> pairs, in        *)
(*                           insertion order                               *)
(*   a parameter value       [type |-> <python type>, val |-> <integer>]   *)
(*   a stored document       a record with an _id field given by the store *)
(*   an environment string   a sequence of decimal digits                  *)
(* The collections model the mongod that listens on the session's port;    *)
(* the handle self.mongo_process is the child process this session         *)
(* launched, whose exit status is all that check_db_status looks at.       *)
(***************************************************************************)
EXTENDS Integers, Sequences, FiniteSets, TLC

VARIABLES
    mongo_process,      \* Database.mongo_process: None or the Popen handle
    trials,             \* collection db.trials, in insertion order
    results,            \* collection db.results, in insertion order
    stop,               \* collection db.stop, in insertion order
    collected_results,  \* Database.collected_results (list of _id)
    ctl_pc,             \* where the controller is: new (before Database(...)), no_session,
                        \* idle, start_sleep, get_new_results, closed
    cursor,             \* number of entries the cursor of get_new_results has yielded
    new_results,        \* local new_results of get_new_results; its return value
    new_ids,            \* history: the _id of each entry of new_results
    seen_before,        \* history: collected_results when the current call began
    delivered,          \* history: the _id of every record returned so far
    enqueued,           \* history: the trials of the study whose enqueue_trial returned normally
    ctl_result,         \* outcome of the controller's last call
    worker,             \* per worker process: position, locals and outcome
    reinstantiated,     \* the argument reinstantiated of Database.__init__
    scope,              \* the with statement that launched the store process: out (none
                        \* yet), body, aborted (__enter__ raised), exited (__exit__ ran)
    terminate_sent      \* history: mongo_process.terminate() has been called

vars == <<mongo_process, trials, results, stop, collected_results, ctl_pc, cursor,
          new_results, new_ids, seen_before, delivered, enqueued, ctl_result, worker,
          reinstantiated, scope, terminate_sent>>

store == <<trials, results, stop>>

session == <<reinstantiated, scope, terminate_sent>>

(***************************************************************************)
(* Bounds of the model and the inputs the operations are called with.      *)
(***************************************************************************)
\* The store holds at most MaxDocs documents, the three collections together.
MaxDocs == 4

\* Trial identifiers of the study: one per worker process.
TrialIds == {1, 2}

\* Exit codes the supervised mongod may end with.
ExitCodes == {0, 1}

\* Worker processes.  w1 is launched by the scheduler, with SHERPA_TRIAL_ID in
\* its environment, w2 by hand, with none.
Workers == {"w1", "w2"}

\* How a worker process comes to call get_trial: env is
\* os.environ.get('SHERPA_TRIAL_ID') in the process, id the argument it passes,
\* 0 standing for None (both are falsy).  w1 runs trial 1, named either by its
\* environment or by the argument, the environment then naming another trial;
\* w2 runs trial 2 or passes nothing.
Launches(w) ==
    IF w = "w1"
    THEN { [id |-> 0, env |-> <<1>>], [id |-> 1, env |-> <<2>>] }
    ELSE { [id |-> 0, env |-> << >>], [id |-> 2, env |-> << >>] }

\* Parameter dicts of the trials handed to enqueue_trial.
PyFloat(n) == [type |-> "float", val |-> n]

NumpyInt64(n) == [type |-> "numpy.int64", val |-> n]

NumpyInt32(n) == [type |-> "numpy.int32", val |-> n]

ParamChoices ==
    { << <<"lr", PyFloat(1)>> >>,
      << <<"lr", PyFloat(1)>>, <<"batch_size", NumpyInt64(32)>> >>,
      << <<"depth", NumpyInt32(4)>> >> }

\* sherpa.Trial objects handed to enqueue_trial.
TrialInputs == [id : TrialIds, parameters : ParamChoices]

\* Arguments (iteration, objective, context) each worker calls send_metrics
\* with: w1 leaves context at its default.
MetricInputs(w) ==
    IF w = "w1"
    THEN { [iteration |-> 1, objective |-> 5, context |-> << >>] }
    ELSE { [iteration |-> 2, objective |-> 7, context |-> << <<"acc", 1>> >>] }

(***************************************************************************)
(* Python and store primitives.                                            *)
(***************************************************************************)
None == [kind |-> "None", returncode |-> << >>]

Popen(rc) == [kind |-> "Popen", returncode |-> rc]

\* Popen.poll(): None while the child runs, else its return code.
poll(p) == p.returncode

\* Truth value of the result of poll(): None and 0 are falsy.
StatusTruthy(status) == status # << >> /\ status[1] # 0

\* Truth value of a dict: falsy only when empty.
DictTruthy(keys) == keys # {}

\* int() of a string of decimal digits.
RECURSIVE StrToInt(_)
StrToInt(s) ==
    IF s = << >> THEN 0
    ELSE 10 * StrToInt(SubSeq(s, 1, Len(s) - 1)) + s[Len(s)]

\* Values the BSON encoder of the store accepts.
BsonEncodable(v) == v.type \in {"int", "float"}

\* The encoder raises InvalidDocument when some parameter is not encodable.
InvalidDocument(parameters) ==
    \E k \in DOMAIN parameters : ~ BsonEncodable(parameters[k][2])

\* Python == on numbers compares the numeric value, whatever the type.
PyEq(a, b) == a.val = b.val

\* Python == on two dicts with the same insertion order of keys.
DictEq(p, q) ==
    /\ Len(p) = Len(q)
    /\ \A k \in DOMAIN p : p[k][1] = q[k][1] /\ PyEq(p[k][2], q[k][2])

\* Faulty variant of find_trial_id: the query carries no filter.
find_trial_id_unfiltered(coll, trial_id) == coll

\* collection.find({'trial_id': trial_id})
find_trial_id(coll, trial_id) == SelectSeq(coll, LAMBDA d : d.trial_id = trial_id)

(***************************************************************************)
(* Database.check_db_status                                                *)
(***************************************************************************)
\* Faulty variant of check_db_status: a session that has no process is let through.
check_db_status_unset_ok(p) ==
    IF p = None
    THEN [raised |-> "None", status |-> << >>]
    ELSE LET status == poll(p)
         IN  IF StatusTruthy(status)
             THEN [raised |-> "EnvironmentError", status |-> status]
             ELSE [raised |-> "None", status |-> status]

check_db_status(p) ==
    IF p = None
    THEN [raised |-> "AttributeError", status |-> << >>]
    ELSE LET status == poll(p)
         IN  IF StatusTruthy(status)
             THEN [raised |-> "EnvironmentError", status |-> status]
             ELSE [raised |-> "None", status |-> status]

\* What a call of the controller left: the exception it raised, the status its
\* check_db_status read, and how many times it called insert_one.
Outcome(op, raised, status) ==
    [op |-> op, raised |-> raised, status |-> status, inserts |-> 0]

(***************************************************************************)
(* Values of the workers' locals before their first call.                  *)
(***************************************************************************)
NoTrial == [id |-> 0, parameters |-> << >>]

NoCall == [iteration |-> 0, objective |-> 0, context |-> << >>]

WorkerInit ==
    [pc |-> "UNASSIGNED", trial_id |-> 0, attempts |-> 0, trial |-> NoTrial,
     raised |-> "None", call |-> NoCall]

(***************************************************************************)
(* Database.start, and the supervised process ending on its own.           *)
(***************************************************************************)
\* __enter__: start up to and including Popen; the call then sleeps one second.
\* A session starts its store once; installed tells whether mongod is found in
\* PATH.
StartPopen(installed) ==
    /\ UNCHANGED session
    /\ ctl_pc = "idle"
    /\ mongo_process = None
    /\ IF installed
       THEN /\ mongo_process' = Popen(<< >>)
            /\ ctl_pc' = "start_sleep"
            /\ UNCHANGED ctl_result
       ELSE /\ ctl_result' = Outcome("start", "FileNotFoundError", << >>)
            /\ UNCHANGED <<mongo_process, ctl_pc>>
    /\ UNCHANGED <<store, collected_results, cursor, new_results, new_ids,
                   seen_before, delivered, enqueued, worker>>

\* start after the sleep: check_db_status.  When it returns, __enter__ returns
\* and the body of the with statement begins; when it raises, the with
\* statement is over and __exit__ is not called.
StartCheck ==
    /\ ctl_pc = "start_sleep"
    /\ LET c == check_db_status(mongo_process)
       IN  /\ ctl_result' = Outcome("start", c.raised, c.status)
           /\ scope' = IF c.raised = "None" THEN "body" ELSE "aborted"
    /\ ctl_pc' = "idle"
    /\ UNCHANGED <<reinstantiated, terminate_sent>>
    /\ UNCHANGED <<mongo_process, store, collected_results, cursor, new_results,
                   new_ids, seen_before, delivered, enqueued, worker>>

\* The child process ends with the given code.
ProcessExit(code) ==
    /\ UNCHANGED session
    /\ mongo_process # None
    /\ poll(mongo_process) = << >>
    /\ mongo_process' = Popen(<<code>>)
    /\ UNCHANGED <<store, collected_results, ctl_pc, cursor, new_results, new_ids,
                   seen_before, delivered, enqueued, ctl_result, worker>>

(***************************************************************************)
(* Database.get_new_results                                                *)
(***************************************************************************)
\* Faulty variant of not_collected: the membership test is dropped.
not_collected_always(mongo_id, collected) == TRUE

\* mongo_id not in self.collected_results
not_collected(mongo_id, collected) ==
    \A k \in DOMAIN collected : collected[k] # mongo_id

\* result = entry; result.pop('_id'): the document without its _id.
pop_id(entry) ==
    [parameters |-> entry.parameters, trial_id |-> entry.trial_id,
     objective |-> entry.objective, iteration |-> entry.iteration,
     context |-> entry.context]

\* The call up to the opening of the cursor: check_db_status, new_results = [],
\* self.db.results.find().
GetNewResultsCall ==
    /\ UNCHANGED session
    /\ ctl_pc = "idle"
    /\ LET c == check_db_status(mongo_process)
       IN  /\ ctl_result' = Outcome("get_new_results", c.raised, c.status)
           /\ IF c.raised # "None"
              THEN UNCHANGED <<ctl_pc, cursor, new_results, new_ids, seen_before>>
              ELSE /\ ctl_pc' = "get_new_results"
                   /\ cursor' = 0
                   /\ new_results' = << >>
                   /\ new_ids' = << >>
                   /\ seen_before' = collected_results
    /\ UNCHANGED <<mongo_process, store, collected_results, delivered, enqueued, worker>>

\* Faulty variant of GetNewResultsNext: a new entry is recorded as collected but is not
\* appended to new_results.
GetNewResultsNext_Lossy ==
    /\ UNCHANGED session
    /\ ctl_pc = "get_new_results"
    /\ cursor < Len(results)
    /\ LET mongo_id == results[cursor + 1]._id
       IN  IF \A k \in DOMAIN collected_results : collected_results[k] # mongo_id
           THEN /\ collected_results' = Append(collected_results, mongo_id)
                /\ UNCHANGED <<new_results, new_ids>>
           ELSE UNCHANGED <<new_results, collected_results, new_ids>>
    /\ cursor' = cursor + 1
    /\ UNCHANGED <<mongo_process, store, ctl_pc, seen_before, delivered, enqueued,
                   ctl_result, worker>>

\* One iteration of the for loop: the cursor yields the next entry.
GetNewResultsNext ==
    /\ UNCHANGED session
    /\ ctl_pc = "get_new_results"
    /\ cursor < Len(results)
    /\ LET entry == results[cursor + 1]
           mongo_id == entry._id
       IN  IF not_collected(mongo_id, collected_results)
           THEN /\ new_results' = Append(new_results, pop_id(entry))
                /\ collected_results' = Append(collected_results, mongo_id)
                /\ new_ids' = Append(new_ids, mongo_id)
           ELSE UNCHANGED <<new_results, collected_results, new_ids>>
    /\ cursor' = cursor + 1
    /\ UNCHANGED <<mongo_process, store, ctl_pc, seen_before, delivered, enqueued,
                   ctl_result, worker>>

\* The cursor is exhausted: return new_results.  Documents inserted while the
\* loop runs are still yielded, so the fetch is complete at this step.  __init__
\* drops the list its call returns.
GetNewResultsReturn ==
    /\ UNCHANGED session
    /\ ctl_pc = "get_new_results"
    /\ cursor >= Len(results)
    /\ ctl_pc' = "idle"
    /\ cursor' = 0
    /\ delivered' = IF ctl_result.op = "__init__" THEN delivered ELSE delivered \o new_ids
    /\ UNCHANGED <<mongo_process, store, collected_results, new_results, new_ids,
                   seen_before, enqueued, ctl_result, worker>>

(***************************************************************************)
(* Database.enqueue_trial                                                  *)
(***************************************************************************)
\* Faulty variant of normalize: int(v) is applied to every value.
normalize_every_value(parameters) ==
    [k \in DOMAIN parameters |->
        <<parameters[k][1], [type |-> "int", val |-> parameters[k][2].val]>>]

\* The except branch: every numpy.int64 value becomes int(v).
normalize(parameters) ==
    [k \in DOMAIN parameters |->
        LET v == parameters[k][2]
        IN  <<parameters[k][1],
              IF v.type = "numpy.int64" THEN [type |-> "int", val |-> v.val] ELSE v>>]

\* self.db.trials.insert_one(trial) on an encodable document.
insert_trial(coll, trial_id, parameters) ==
    Append(coll, [_id |-> Len(coll) + 1, trial_id |-> trial_id,
                  parameters |-> parameters])

\* Faulty variant of EnqueueTrial: the document of the first attempt stays in the
\* collection when the encoder rejects it.
EnqueueTrial_KeepsRejected(trial) ==
    /\ UNCHANGED session
    /\ ctl_pc = "idle"
    /\ Len(trials) + Len(stop) + Len(results) < MaxDocs
    /\ LET c == check_db_status(mongo_process)
           done(raised, n) == [Outcome("enqueue_trial", raised, c.status)
                                  EXCEPT !.inserts = n]
       IN  IF c.raised # "None"
           THEN /\ ctl_result' = done(c.raised, 0)
                /\ UNCHANGED <<trials, enqueued>>
           ELSE IF ~ InvalidDocument(trial.parameters)
           THEN /\ trials' = insert_trial(trials, trial.id, trial.parameters)
                /\ enqueued' = Append(enqueued, trial)
                /\ ctl_result' = done("None", 1)
           ELSE LET new_params == normalize(trial.parameters)
                IN  IF ~ InvalidDocument(new_params)
                    THEN /\ trials' = insert_trial(trials, trial.id, new_params)
                         /\ enqueued' = Append(enqueued, trial)
                         /\ ctl_result' = done("None", 2)
                    ELSE /\ ctl_result' = done("InvalidDocument", 2)
                         /\ trials' = insert_trial(trials, trial.id, trial.parameters)
                         /\ UNCHANGED enqueued
    /\ UNCHANGED <<mongo_process, results, stop, collected_results, ctl_pc, cursor,
                   new_results, new_ids, seen_before, delivered, worker>>

\* check_db_status; insert_one(trial); on InvalidDocument, the parameters are
\* normalized and insert_one is called once more, outside the try.
EnqueueTrial(trial) ==
    /\ UNCHANGED session
    /\ ctl_pc = "idle"
    /\ Len(trials) + Len(stop) + Len(results) < MaxDocs
    /\ LET c == check_db_status(mongo_process)
           done(raised, n) == [Outcome("enqueue_trial", raised, c.status)
                                  EXCEPT !.inserts = n]
       IN  IF c.raised # "None"
           THEN /\ ctl_result' = done(c.raised, 0)
                /\ UNCHANGED <<trials, enqueued>>
           ELSE IF ~ InvalidDocument(trial.parameters)
           THEN /\ trials' = insert_trial(trials, trial.id, trial.parameters)
                /\ enqueued' = Append(enqueued, trial)
                /\ ctl_result' = done("None", 1)
           ELSE LET new_params == normalize(trial.parameters)
                IN  IF ~ InvalidDocument(new_params)
                    THEN /\ trials' = insert_trial(trials, trial.id, new_params)
                         /\ enqueued' = Append(enqueued, trial)
                         /\ ctl_result' = done("None", 2)
                    ELSE /\ ctl_result' = done("InvalidDocument", 2)
                         /\ UNCHANGED <<trials, enqueued>>
    /\ UNCHANGED <<mongo_process, results, stop, collected_results, ctl_pc, cursor,
                   new_results, new_ids, seen_before, delivered, worker>>

(***************************************************************************)
(* Database.add_for_stopping                                               *)
(***************************************************************************)
\* self.db.stop.insert_one({'trial_id': trial_id})
insert_stop(coll, trial_id) ==
    Append(coll, [_id |-> Len(coll) + 1, trial_id |-> trial_id])

\* Faulty variant of AddForStopping: the insert does not wait for check_db_status.
AddForStopping_Unchecked(trial_id) ==
    /\ UNCHANGED session
    /\ ctl_pc = "idle"
    /\ Len(trials) + Len(stop) + Len(results) < MaxDocs
    /\ LET c == check_db_status(mongo_process)
       IN  ctl_result' = [Outcome("add_for_stopping", c.raised, c.status)
                             EXCEPT !.inserts = 1]
    /\ stop' = insert_stop(stop, trial_id)
    /\ UNCHANGED <<mongo_process, trials, results, collected_results, ctl_pc, cursor,
                   new_results, new_ids, seen_before, delivered, enqueued, worker>>

AddForStopping(trial_id) ==
    /\ UNCHANGED session
    /\ ctl_pc = "idle"
    /\ Len(trials) + Len(stop) + Len(results) < MaxDocs
    /\ LET c == check_db_status(mongo_process)
       IN  /\ ctl_result' = [Outcome("add_for_stopping", c.raised, c.status)
                                 EXCEPT !.inserts = IF c.raised # "None" THEN 0 ELSE 1]
           /\ IF c.raised # "None"
              THEN UNCHANGED stop
              ELSE stop' = insert_stop(stop, trial_id)
    /\ UNCHANGED <<mongo_process, trials, results, collected_results, ctl_pc, cursor,
                   new_results, new_ids, seen_before, delivered, enqueued, worker>>

(***************************************************************************)
(* Client.get_trial                                                        *)
(***************************************************************************)
\* range(5): the number of iterations of the polling loop.
MaxAttempts == 5

\* The assert: id or os.environ.get('SHERPA_TRIAL_ID') is truthy.
has_trial_id(id, env) == id # 0 \/ env # << >>

\* Faulty variant of resolve_trial_id: the environment is looked at first.
resolve_trial_id_env_first(id, env) == IF env # << >> THEN StrToInt(env) ELSE id

\* int(id or os.environ.get('SHERPA_TRIAL_ID'))
resolve_trial_id(id, env) == IF id # 0 THEN id ELSE StrToInt(env)

\* sherpa.Trial(id=t.get('trial_id'), parameters=t.get('parameters'))
Trial(t) == [id |-> t.trial_id, parameters |-> t.parameters]

\* Faulty variant of get_trial_attempt: a trial listed in db.stop is not handed
\* out; the call raises the cancellation signal.
get_trial_attempt_checks_stop(coll, trial_id, n) ==
    LET g == find_trial_id(coll, trial_id)
    IN  IF \E k \in DOMAIN stop : stop[k].trial_id = trial_id
        THEN [pc |-> "CANCELLED", raised |-> "StopIteration", trial |-> NoTrial]
        ELSE IF g = << >>
        THEN [pc |-> "FAILED", raised |-> "StopIteration", trial |-> NoTrial]
        ELSE [pc |-> "RUNNING", raised |-> "None", trial |-> Trial(g[1])]

\* One iteration of the for loop, the n-th, and what follows it when the loop
\* ends: g = (entry for entry in find(...)); t = next(g); if t: break;
\* time.sleep(10).  next(g) raises StopIteration when the query matched nothing.
get_trial_attempt(coll, trial_id, n) ==
    LET g == find_trial_id(coll, trial_id)
    IN  IF g = << >>
        THEN [pc |-> "FAILED", raised |-> "StopIteration", trial |-> NoTrial]
        ELSE LET t == g[1]
             IN  IF DictTruthy(DOMAIN t)
                 THEN [pc |-> "RUNNING", raised |-> "None", trial |-> Trial(t)]
                 ELSE IF n < MaxAttempts
                 THEN [pc |-> "get_trial", raised |-> "None", trial |-> NoTrial]
                 ELSE [pc |-> "FAILED", raised |-> "RuntimeError", trial |-> NoTrial]

\* get_trial(id) from its call to the end of the first iteration of the loop, or,
\* when the call is asleep between two iterations, its next iteration.
GetTrial(w, id, env) ==
    /\ UNCHANGED session
    /\ worker[w].pc \in {"UNASSIGNED", "get_trial"}
    /\ worker[w].pc = "get_trial" => id = 0
    /\ IF worker[w].pc = "UNASSIGNED" /\ ~ has_trial_id(id, env)
       THEN worker' = [worker EXCEPT ![w].pc = "FAILED",
                                     ![w].raised = "AssertionError"]
       ELSE LET trial_id == IF worker[w].pc = "UNASSIGNED"
                            THEN resolve_trial_id(id, env)
                            ELSE worker[w].trial_id
                n == worker[w].attempts + 1
                r == get_trial_attempt(trials, trial_id, n)
            IN  worker' = [worker EXCEPT ![w].pc = r.pc,
                                         ![w].trial_id = trial_id,
                                         ![w].attempts = n,
                                         ![w].trial = r.trial,
                                         ![w].raised = r.raised]
    /\ UNCHANGED <<mongo_process, store, collected_results, ctl_pc, cursor,
                   new_results, new_ids, seen_before, delivered, enqueued, ctl_result>>

(***************************************************************************)
(* Client.send_metrics                                                     *)
(***************************************************************************)
\* Faulty variant of insert_result: objective and iteration are exchanged.
insert_result_swapped(coll, trial, iteration, objective, context) ==
    Append(coll, [_id |-> Len(coll) + 1,
                  parameters |-> trial.parameters,
                  trial_id |-> trial.id,
                  objective |-> iteration,
                  iteration |-> objective,
                  context |-> context])

\* self.db.results.insert_one(result)
insert_result(coll, trial, iteration, objective, context) ==
    Append(coll, [_id |-> Len(coll) + 1,
                  parameters |-> trial.parameters,
                  trial_id |-> trial.id,
                  objective |-> objective,
                  iteration |-> iteration,
                  context |-> context])

\* Faulty variant of listed_for_stopping: only the first stop request is looked at.
listed_for_stopping_first(coll, trial) ==
    coll # << >> /\ coll[1].trial_id = trial.id

\* Faulty variant of listed_for_stopping: any stop request counts, whatever its trial.
listed_for_stopping_any(coll, trial) == coll # << >>

\* Some entry of self.db.stop.find() has entry.get('trial_id') == trial.id.
listed_for_stopping(coll, trial) ==
    \E k \in DOMAIN coll : coll[k].trial_id = trial.id

\* send_metrics up to and including the insert.
SendMetrics(w, m) ==
    /\ UNCHANGED session
    /\ worker[w].pc = "RUNNING"
    /\ Len(trials) + Len(stop) + Len(results) < MaxDocs
    /\ results' = insert_result(results, worker[w].trial, m.iteration, m.objective,
                                m.context)
    /\ worker' = [worker EXCEPT ![w].pc = "send_metrics", ![w].call = m]
    /\ UNCHANGED <<mongo_process, trials, stop, collected_results, ctl_pc, cursor,
                   new_results, new_ids, seen_before, delivered, enqueued, ctl_result>>

\* Faulty variant of SendMetricsScan: the worker removes the stop requests it has
\* acted on.
SendMetricsScan_Consumes(w) ==
    /\ UNCHANGED session
    /\ worker[w].pc = "send_metrics"
    /\ IF listed_for_stopping(stop, worker[w].trial)
       THEN /\ worker' = [worker EXCEPT ![w].pc = "CANCELLED",
                                        ![w].raised = "StopIteration",
                                        ![w].call = NoCall]
            /\ stop' = SelectSeq(stop, LAMBDA e : e.trial_id # worker[w].trial.id)
       ELSE /\ worker' = [worker EXCEPT ![w].pc = "RUNNING", ![w].call = NoCall]
            /\ UNCHANGED stop
    /\ UNCHANGED <<mongo_process, trials, results, collected_results, ctl_pc, cursor,
                   new_results, new_ids, seen_before, delivered, enqueued, ctl_result>>

\* send_metrics after the insert: the scan of db.stop; StopIteration is the
\* cancellation signal.
SendMetricsScan(w) ==
    /\ UNCHANGED session
    /\ worker[w].pc = "send_metrics"
    /\ IF listed_for_stopping(stop, worker[w].trial)
       THEN worker' = [worker EXCEPT ![w].pc = "CANCELLED",
                                     ![w].raised = "StopIteration",
                                     ![w].call = NoCall]
       ELSE worker' = [worker EXCEPT ![w].pc = "RUNNING", ![w].call = NoCall]
    /\ UNCHANGED <<mongo_process, store, collected_results, ctl_pc, cursor,
                   new_results, new_ids, seen_before, delivered, enqueued, ctl_result>>

(***************************************************************************)
(* Database.__exit__ and Database.close                                    *)
(***************************************************************************)
\* How the body of the with statement ends: by returning, or with an exception.
ExcTypes == {"None", "EnvironmentError", "StopIteration"}

\* Faulty variant of Exit: __exit__ calls close only when the body raised nothing.
Exit_OnlyOnReturn(exc_type) ==
    /\ scope = "body"
    /\ ctl_pc = "idle"
    /\ exc_type = "EnvironmentError" => ctl_result.raised = "EnvironmentError"
    /\ terminate_sent' = (exc_type = "None")
    /\ scope' = "exited"
    /\ ctl_pc' = "closed"
    /\ ctl_result' = Outcome("__exit__", exc_type, << >>)
    /\ UNCHANGED <<mongo_process, store, collected_results, cursor, new_results,
                   new_ids, seen_before, delivered, enqueued, worker, reinstantiated>>

\* The body of the with statement ends, with exception exc_type or none, and
\* __exit__ runs: self.close(), which is self.mongo_process.terminate().  An
\* EnvironmentError leaves the body when the last call of the body raised it.
\* The session is not used after the with statement.
Exit(exc_type) ==
    /\ scope = "body"
    /\ ctl_pc = "idle"
    /\ exc_type = "EnvironmentError" => ctl_result.raised = "EnvironmentError"
    /\ terminate_sent' = TRUE
    /\ scope' = "exited"
    /\ ctl_pc' = "closed"
    /\ ctl_result' = Outcome("__exit__", exc_type, << >>)
    /\ UNCHANGED <<mongo_process, store, collected_results, cursor, new_results,
                   new_ids, seen_before, delivered, enqueued, worker, reinstantiated>>

(***************************************************************************)
(* Database.__init__, and the state before it.                             *)
(***************************************************************************)
\* What the data directory holds when the controller process begins: nothing
\* (a fresh study), or the documents of an earlier run of the study, in which
\* trial 1 was enqueued and its worker reported one iteration.
PriorTrial == [id |-> 1, parameters |-> << <<"lr", PyFloat(1)>> >>]

PriorStudies ==
    { [trials |-> << >>, results |-> << >>, enqueued |-> << >>],
      [trials |-> insert_trial(<< >>, PriorTrial.id, PriorTrial.parameters),
       results |-> insert_result(<< >>, PriorTrial, 1, 5, << >>),
       enqueued |-> <<PriorTrial>>] }

\* The controller has not constructed its Database, the Clients are
\* constructed, no worker has called get_trial.
Init ==
    /\ \E study \in PriorStudies :
          /\ trials = study.trials
          /\ results = study.results
          /\ enqueued = study.enqueued
    /\ stop = << >>
    /\ mongo_process = None
    /\ collected_results = << >>
    /\ ctl_pc = "new"
    /\ cursor = 0
    /\ new_results = << >>
    /\ new_ids = << >>
    /\ seen_before = << >>
    /\ delivered = << >>
    /\ ctl_result = Outcome("none", "None", << >>)
    /\ worker = [w \in Workers |-> WorkerInit]
    /\ reinstantiated = FALSE
    /\ scope = "out"
    /\ terminate_sent = FALSE

\* Database(db_dir, port, reinstantiated=r): collected_results = [],
\* mongo_process = None, then, if reinstantiated, self.get_new_results(), whose
\* first statement is check_db_status on the handle just set.  An exception
\* leaves the controller without a Database.
Construct(r) ==
    /\ ctl_pc = "new"
    /\ reinstantiated' = r
    /\ collected_results' = << >>
    /\ mongo_process' = None
    /\ IF r
       THEN LET c == check_db_status(mongo_process')
            IN  /\ ctl_result' = Outcome("__init__", c.raised, c.status)
                /\ IF c.raised # "None"
                   THEN /\ ctl_pc' = "no_session"
                        /\ UNCHANGED <<cursor, new_results, new_ids, seen_before>>
                   ELSE /\ ctl_pc' = "get_new_results"
                        /\ cursor' = 0
                        /\ new_results' = << >>
                        /\ new_ids' = << >>
                        /\ seen_before' = collected_results'
       ELSE /\ ctl_result' = Outcome("__init__", "None", << >>)
            /\ ctl_pc' = "idle"
            /\ UNCHANGED <<cursor, new_results, new_ids, seen_before>>
    /\ UNCHANGED <<store, delivered, enqueued, worker, scope, terminate_sent>>

(***************************************************************************)
(* The system: one controller, the workers, the supervised process.        *)
(***************************************************************************)
Next ==
    \/ \E r \in BOOLEAN : Construct(r)
    \/ \E installed \in BOOLEAN : StartPopen(installed)
    \/ StartCheck
    \/ \E code \in ExitCodes : ProcessExit(code)
    \/ GetNewResultsCall
    \/ GetNewResultsNext
    \/ GetNewResultsReturn
    \/ \E trial \in TrialInputs : EnqueueTrial(trial)
    \/ \E trial_id \in TrialIds : AddForStopping(trial_id)
    \/ \E w \in Workers : \E l \in Launches(w) : GetTrial(w, l.id, l.env)
    \/ \E w \in Workers : \E m \in MetricInputs(w) : SendMetrics(w, m)
    \/ \E w \in Workers : SendMetricsScan(w)
    \/ \E exc_type \in ExcTypes : Exit(exc_type)

Spec == Init /\ [][Next]_vars

(***************************************************************************)
(* Properties.                                                             *)
(***************************************************************************)
NoDuplicates(s) == \A i, j \in DOMAIN s : i # j => s[i] # s[j]

\* The worker has a get_trial call that is not over.
InGetTrial(w) == worker[w].pc \in {"UNASSIGNED", "get_trial"}

\* Some stop request names the trial.
Marked(i) == \E k \in DOMAIN stop : stop[k].trial_id = i

\* C1: the _id of every record get_new_results has returned, over all calls of
\* the session and including the records the call in progress is about to
\* return, are pairwise different: no _id is returned by two calls, or twice by
\* one call, however the workers' inserts interleave with the calls.
C1_NoIdReturnedTwice ==
    NoDuplicates(delivered \o (IF ctl_pc = "get_new_results" THEN new_ids ELSE << >>))

\* Two calls have returned one record each, the second having skipped the
\* record the first returned.
C1_Witness ==
    /\ ctl_pc = "idle"
    /\ Len(delivered) = 2
    /\ Len(new_ids) = 1
    /\ Len(seen_before) = 1

\* C2: when a get_new_results call whose check passed returns, new_results is
\* exactly the records in the store at that moment whose _id was not in
\* collected_results when the call began, in store order and without their _id;
\* collected_results is what it was plus those _ids; every collected _id has
\* been returned by some call, so no record is lost; and a call that finds every
\* record already collected returns the empty list.
C2_ReturnsExactlyTheUnseen ==
    [][ (ctl_pc = "get_new_results" /\ ctl_pc' = "idle") =>
        LET fresh == SelectSeq(results,
                         LAMBDA e : \A k \in DOMAIN seen_before : seen_before[k] # e._id)
        IN  /\ ctl_result.raised = "None"
            /\ Len(new_results') = Len(fresh)
            /\ \A k \in DOMAIN fresh :
                  /\ new_results'[k].trial_id = fresh[k].trial_id
                  /\ new_results'[k].iteration = fresh[k].iteration
                  /\ new_results'[k].objective = fresh[k].objective
                  /\ new_results'[k].context = fresh[k].context
                  /\ new_results'[k].parameters = fresh[k].parameters
            /\ collected_results' = seen_before \o [k \in DOMAIN fresh |-> fresh[k]._id]
            /\ \A k \in DOMAIN collected_results' :
                  \E j \in DOMAIN delivered' : delivered'[j] = collected_results'[k]
            /\ (\A k \in DOMAIN results :
                  \E j \in DOMAIN seen_before : seen_before[j] = results[k]._id)
               => new_results' = << >>
      ]_vars

\* A call has returned the one record that was new and skipped the one that
\* an earlier call had returned.
C2_Witness ==
    /\ ctl_pc = "idle"
    /\ ctl_result = Outcome("get_new_results", "None", << >>)
    /\ Len(results) = 2
    /\ Len(seen_before) = 1
    /\ Len(new_results) = 1
    /\ new_results[1].trial_id = results[2].trial_id
    /\ collected_results = <<results[1]._id, results[2]._id>>

\* C3: a send_metrics call whose scan runs while one or more stop requests name
\* its trial ends with the cancellation signal (StopIteration), whatever else the
\* stop collection holds; and a trial that is marked stays marked, so this holds
\* of every call that starts after add_for_stopping has inserted its request.
C3_MarkedTrialIsCancelled ==
    [][ /\ \A w \in Workers :
              ( /\ worker[w].pc = "send_metrics"
                /\ worker'[w].pc # "send_metrics"
                /\ Marked(worker[w].trial.id) )
              => (worker'[w].pc = "CANCELLED" /\ worker'[w].raised = "StopIteration")
        /\ \A i \in TrialIds : Marked(i) => Marked(i)'
      ]_vars

\* A worker was cancelled by the second of two stop requests, the first one
\* being for another trial.
C3_Witness ==
    \E w \in Workers :
        /\ worker[w].pc = "CANCELLED"
        /\ Len(stop) = 2
        /\ stop[1].trial_id # worker[w].trial.id
        /\ stop[2].trial_id = worker[w].trial.id

\* C4: a worker becomes CANCELLED only in the scan of one of its send_metrics
\* calls and only when some stop request names its trial at that moment; a scan
\* that finds no stop request for the trial, even if it finds some for other
\* trials, returns normally.
C4_CancelledOnlyWhenMarked ==
    [][ \A w \in Workers :
          /\ (worker'[w].pc = "CANCELLED" /\ worker[w].pc # "CANCELLED")
             => (worker[w].pc = "send_metrics" /\ Marked(worker[w].trial.id))
          /\ ( /\ worker[w].pc = "send_metrics"
               /\ worker'[w].pc # "send_metrics"
               /\ ~ Marked(worker[w].trial.id) )
             => (worker'[w].pc = "RUNNING" /\ worker'[w].raised = "None")
      ]_vars

\* A worker is running with a record of its trial in the store, while the only
\* stop request is for another trial.
C4_Witness ==
    \E w \in Workers :
        /\ worker[w].pc = "RUNNING"
        /\ \E k \in DOMAIN results : results[k].trial_id = worker[w].trial.id
        /\ stop # << >>
        /\ ~ Marked(worker[w].trial.id)

\* C5: the insert of a send_metrics call appends exactly one document to
\* db.results and changes no other: the new document has a fresh _id, the id and
\* the parameters of the trial, and the iteration, objective and context of the
\* call, whatever the collection already holds; the rest of the call (the scan,
\* also when it ends with the cancellation signal) leaves db.results as it is,
\* with the document in it.
C5_ExactlyOneRecordPerCall ==
    [][ \A w \in Workers :
          /\ (worker[w].pc = "RUNNING" /\ worker'[w].pc = "send_metrics")
             => /\ Len(results') = Len(results) + 1
                /\ SubSeq(results', 1, Len(results)) = results
                /\ LET r == results'[Len(results')]
                       m == worker'[w].call
                   IN  /\ m \in MetricInputs(w)
                       /\ r.trial_id = worker[w].trial.id
                       /\ r.parameters = worker[w].trial.parameters
                       /\ r.iteration = m.iteration
                       /\ r.objective = m.objective
                       /\ r.context = m.context
                       /\ \A k \in DOMAIN results : results[k]._id # r._id
          /\ (worker[w].pc = "send_metrics" /\ worker'[w].pc # "send_metrics")
             => /\ results' = results
                /\ \E k \in DOMAIN results :
                      /\ results[k].trial_id = worker[w].trial.id
                      /\ results[k].iteration = worker[w].call.iteration
                      /\ results[k].objective = worker[w].call.objective
                      /\ results[k].context = worker[w].call.context
      ]_vars

\* Two calls with the same trial and iteration have left two records, and the
\* worker that made them was cancelled by the second.
C5_Witness ==
    \E w \in Workers :
        /\ worker[w].pc = "CANCELLED"
        /\ Len(results) = 2
        /\ results[1].trial_id = worker[w].trial.id
        /\ results[2].trial_id = worker[w].trial.id
        /\ results[1].iteration = results[2].iteration
        /\ results[1]._id # results[2]._id

\* No document of db.trials has the trial id.
NoTrialRequest(i) == \A k \in DOMAIN trials : trials[k].trial_id # i

\* C6: when a get_trial call for trial id i ends and exactly one enqueue_trial
\* call, with parameters P, has returned normally for a trial with id i before
\* (trial ids are unique in a study), the call returns a Trial with id i and
\* parameters equal to P (== of Python: a numpy.int64 value that was stored as
\* int compares equal), whatever else db.trials, db.results and db.stop hold.
C6_ResolvesEnqueuedParameters ==
    [][ \A w \in Workers :
          ( /\ InGetTrial(w)
            /\ worker'[w] # worker[w]
            /\ worker'[w].raised # "AssertionError" )
          => \A k \in DOMAIN enqueued :
                ( /\ enqueued[k].id = worker'[w].trial_id
                  /\ \A j \in DOMAIN enqueued : j # k => enqueued[j].id # enqueued[k].id )
                => /\ worker'[w].pc = "RUNNING"
                   /\ worker'[w].trial.id = enqueued[k].id
                   /\ DictEq(worker'[w].trial.parameters, enqueued[k].parameters)
      ]_vars

\* A worker has resolved the trial enqueued second, after a trial with another
\* id, and its parameters had a numpy.int64 value when it was enqueued.
C6_Witness ==
    \E w \in Workers :
        /\ worker[w].pc = "RUNNING"
        /\ Len(enqueued) = 2
        /\ enqueued[1].id # enqueued[2].id
        /\ worker[w].trial.id = enqueued[2].id
        /\ \E k \in DOMAIN enqueued[2].parameters :
              enqueued[2].parameters[k][2].type = "numpy.int64"
        /\ results # << >>
        /\ stop # << >>

\* C7: a get_trial call that ended without finding a document for its trial id
\* made exactly MaxAttempts (5) queries and raised RuntimeError, and it returned
\* no Trial.
C7_NotFoundAfterFiveAttempts ==
    \A w \in Workers :
        /\ (worker[w].pc = "FAILED" /\ worker[w].raised # "AssertionError")
           => /\ worker[w].attempts = MaxAttempts
              /\ worker[w].raised = "RuntimeError"
              /\ worker[w].trial = NoTrial
        /\ worker[w].pc = "RUNNING" => ~ NoTrialRequest(worker[w].trial.id)

\* C8: when an attempt of get_trial, not the last one, finds no document for the
\* trial id, the call goes on (it sleeps, then queries again), so that a trial
\* enqueued in the meantime is found by a later attempt.
C8_PollsUntilEnqueued ==
    [][ \A w \in Workers :
          ( /\ InGetTrial(w)
            /\ worker'[w].attempts = worker[w].attempts + 1
            /\ worker'[w].attempts < MaxAttempts
            /\ NoTrialRequest(worker'[w].trial_id) )
          => worker'[w].pc = "get_trial"
      ]_vars

\* The controller's last call ran check_db_status.
CheckRan ==
    /\ ctl_result.op \in {"start", "get_new_results", "enqueue_trial", "add_for_stopping"}
    /\ ctl_result.raised \notin {"FileNotFoundError", "AttributeError"}

\* C9: check_db_status raised the "Database exited with code N" error whenever
\* poll() showed the process to have ended, whatever the code, and let the call
\* go on only when poll() showed it to be running.
C9_RaisesWhenTerminated ==
    CheckRan =>
        /\ ctl_result.status # << >> => ctl_result.raised = "EnvironmentError"
        /\ ctl_result.raised # "EnvironmentError" => ctl_result.status = << >>

\* The process handle is unset, or the process has ended with a nonzero code:
\* the states in which check_db_status raises.
CheckFails ==
    \/ mongo_process.kind = "None"
    \/ mongo_process.returncode \notin {<< >>, <<0>>}

\* C10: a call of get_new_results, enqueue_trial or add_for_stopping in which
\* check_db_status raised ends with that exception and has changed nothing:
\* no document was inserted, the cursor on db.results was not opened,
\* collected_results and the records returned so far are as before.  Whenever
\* the check would raise, no step of the idle controller changes db.trials,
\* db.stop or collected_results.
C10_FailedCheckTouchesNothing ==
    [][ /\ ( /\ ctl_result' # ctl_result
             /\ ctl_result'.op \in {"get_new_results", "enqueue_trial", "add_for_stopping"}
             /\ ctl_result'.raised \in {"EnvironmentError", "AttributeError"} )
           => /\ UNCHANGED <<trials, results, stop, collected_results, cursor,
                             new_results, delivered, enqueued>>
              /\ ctl_pc' = "idle"
        /\ (ctl_pc = "idle" /\ CheckFails)
           => /\ UNCHANGED <<trials, stop, collected_results, cursor, new_results,
                             delivered, enqueued>>
              /\ ctl_pc' # "get_new_results"
              /\ ( /\ ctl_result' # ctl_result
                   /\ ctl_result'.op \in {"get_new_results", "enqueue_trial",
                                          "add_for_stopping"} )
                 => ctl_result'.raised \in {"EnvironmentError", "AttributeError"}
      ]_vars

\* get_new_results failed in the check, the process having ended with code 1,
\* while a record nobody has collected was in the store.
C10_Witness ==
    /\ ctl_result = Outcome("get_new_results", "EnvironmentError", <<1>>)
    /\ ctl_pc = "idle"
    /\ results # << >>
    /\ trials # << >>
    /\ collected_results = << >>

\* C11: a Database constructed with reinstantiated=True on a store that holds
\* result records completes its construction; when the get_new_results call of
\* __init__ ends, the _id of every record in db.results is in collected_results
\* and nothing has been returned to the caller; and no later call of the session
\* returns a record whose _id was collected before the call began.
C11_ResumeDrainsOldResults ==
    [][ /\ (ctl_pc = "new" /\ reinstantiated' /\ results # << >>)
           => ctl_pc' # "no_session"
        /\ ( /\ reinstantiated
             /\ ctl_result.op = "__init__"
             /\ ctl_pc = "get_new_results"
             /\ ctl_pc' = "idle" )
           => /\ \A k \in DOMAIN results :
                    \E j \in DOMAIN collected_results' :
                        collected_results'[j] = results[k]._id
              /\ delivered' = << >>
        /\ reinstantiated
           => \A j \in DOMAIN delivered' :
                 j > Len(delivered)
                 => \A k \in DOMAIN seen_before : seen_before[k] # delivered'[j]
      ]_vars

\* The step is a call of enqueue_trial that has ended.
EnqueueEnded ==
    /\ ctl_result'.op = "enqueue_trial"
    /\ ctl_result' # ctl_result \/ trials' # trials

\* C12: a call of enqueue_trial calls insert_one at most twice: not at all when
\* the check fails, once when the document is accepted at once, twice when the
\* first attempt raised InvalidDocument, and then the second document holds no
\* numpy.int64 any more.  A call that raises InvalidDocument has made exactly two
\* attempts and raises nothing else.  A call that returns has appended exactly
\* one document, with the id of the trial, to db.trials and changed no other; a
\* call that raises leaves db.trials as it was; and nothing but a returning
\* enqueue_trial changes db.trials.
C12_AtMostTwoInsertAttempts ==
    [][ /\ EnqueueEnded =>
            LET o == ctl_result'
            IN  /\ o.raised \in {"None", "InvalidDocument", "EnvironmentError",
                                 "AttributeError"}
                /\ o.inserts \in {0, 1, 2}
                /\ o.raised \in {"EnvironmentError", "AttributeError"} <=> o.inserts = 0
                /\ o.raised = "InvalidDocument" => o.inserts = 2
                /\ o.raised # "None" => (trials' = trials /\ enqueued' = enqueued)
                /\ o.raised = "None" =>
                      /\ Len(trials') = Len(trials) + 1
                      /\ SubSeq(trials', 1, Len(trials)) = trials
                      /\ Len(enqueued') = Len(enqueued) + 1
                      /\ LET doc == trials'[Len(trials')]
                             trial == enqueued'[Len(enqueued')]
                         IN  /\ doc.trial_id = trial.id
                             /\ o.inserts = 2 <=> InvalidDocument(trial.parameters)
                             /\ \A k \in DOMAIN doc.parameters :
                                   doc.parameters[k][2].type # "numpy.int64"
        /\ trials' # trials => (EnqueueEnded /\ ctl_result'.raised = "None")
      ]_vars

\* A call has returned after two attempts and has appended its document to a
\* collection that held one already.
C12_Witness ==
    /\ ctl_result.op = "enqueue_trial"
    /\ ctl_result.raised = "None"
    /\ ctl_result.inserts = 2
    /\ Len(trials) = 2
    /\ trials[2].trial_id = enqueued[2].id

\* C13: when enqueue_trial passes its check and is given a trial whose parameters
\* are encodable or numpy.int64, it returns, having stored a document; and the
\* parameters of a stored document have the names of the trial's parameters, in
\* their order, each with a value equal to the original in value: an encodable
\* value is stored as it is, with its type, a numpy.int64 as the int of the same
\* value.
C13_CoercionKeepsValues ==
    [][ \A trial \in TrialInputs :
          ( /\ ctl_result'.op = "enqueue_trial"
            /\ check_db_status(mongo_process).raised = "None"
            /\ EnqueueTrial(trial) )
          => LET P == trial.parameters
             IN  /\ (\A k \in DOMAIN P :
                        BsonEncodable(P[k][2]) \/ P[k][2].type = "numpy.int64")
                    => ctl_result'.raised = "None"
                 /\ ctl_result'.raised = "None"
                    => LET Q == trials'[Len(trials')].parameters
                       IN  /\ Len(trials') = Len(trials) + 1
                           /\ Len(Q) = Len(P)
                           /\ \A k \in DOMAIN P :
                                 /\ Q[k][1] = P[k][1]
                                 /\ Q[k][2].val = P[k][2].val
                                 /\ BsonEncodable(P[k][2]) => Q[k][2] = P[k][2]
                                 /\ P[k][2].type = "numpy.int64" => Q[k][2].type = "int"
      ]_vars

\* A trial with a float and a numpy.int64 parameter was enqueued: the stored
\* document has the float as it was and the int of the same value.
C13_Witness ==
    \E k \in DOMAIN trials :
        /\ enqueued[k].parameters = << <<"lr", PyFloat(1)>>, <<"batch_size", NumpyInt64(32)>> >>
        /\ trials[k].parameters =
              << <<"lr", PyFloat(1)>>, <<"batch_size", [type |-> "int", val |-> 32]>> >>

\* C14: a call of start that launched the process has raised the error of
\* check_db_status whenever poll() after the sleep showed the process to have
\* ended, whatever the code, and has returned only when poll() showed it to be
\* running.
C14_StartFailsWhenProcessExited ==
    (ctl_result.op = "start" /\ ctl_result.raised # "FileNotFoundError")
    => /\ ctl_result.status # << >> => ctl_result.raised = "EnvironmentError"
       /\ ctl_result.raised = "None" => ctl_result.status = << >>

\* The process was launched and poll() would show it to be running.
Running == mongo_process.kind = "Popen" /\ mongo_process.returncode = << >>

\* C15 as stated: once the with statement is over, by whatever path (the body
\* returned, the body raised, or start raised after Popen had launched the
\* process), terminate() has been called on the process that was launched.
C15_TerminatedOnEveryExitPath ==
    (mongo_process.kind = "Popen" /\ scope \in {"aborted", "exited"}) => terminate_sent

\* C15, amended: when the body of the with statement has ended, by returning or
\* with an exception (EnvironmentError of the check, StopIteration), __exit__ has
\* called terminate() on the process; when start raised after the launch,
\* __exit__ was not called and terminate() was not, and the process had already
\* ended with a nonzero code; so a launched process that is still running is
\* either inside its with statement or has been sent terminate().
C15_TerminatedWhenBodyEnds ==
    /\ scope = "exited" => (terminate_sent /\ ctl_result.op = "__exit__")
    /\ scope = "aborted" =>
          /\ ~ terminate_sent
          /\ mongo_process.kind = "Popen"
          /\ mongo_process.returncode \notin {<< >>, <<0>>}
    /\ Running => \/ terminate_sent
                  \/ scope = "body"
                  \/ (scope = "out" /\ ctl_pc = "start_sleep")

\* The body ended with the EnvironmentError of a failed check, and __exit__ has
\* sent terminate() to the process, which had ended with code 1.
C15_Witness ==
    /\ scope = "exited"
    /\ ctl_result = Outcome("__exit__", "EnvironmentError", << >>)
    /\ terminate_sent
    /\ mongo_process = Popen(<<1>>)

\* C16: the first step of a get_trial call takes the trial id from the argument
\* when one is given, whatever the environment holds, and else from
\* SHERPA_TRIAL_ID; when there is neither, the call ends at once with the
\* AssertionError of its first statement, before any query (no attempt is
\* counted) and without going to sleep; and it raises AssertionError in no other
\* case.
C16_IdFromArgumentElseEnvironment ==
    [][ \A w \in Workers : \A l \in Launches(w) :
          ( /\ worker[w].pc = "UNASSIGNED"
            /\ worker'[w] # worker[w]
            /\ GetTrial(w, l.id, l.env) )
          => /\ l.id # 0 => worker'[w].trial_id = l.id
             /\ (l.id = 0 /\ l.env # << >>) => worker'[w].trial_id = StrToInt(l.env)
             /\ (l.id = 0 /\ l.env = << >>)
                => /\ worker'[w].pc = "FAILED"
                   /\ worker'[w].raised = "AssertionError"
                   /\ worker'[w].attempts = 0
                   /\ worker'[w].trial = NoTrial
             /\ (l.id # 0 \/ l.env # << >>)
                => /\ worker'[w].raised # "AssertionError"
                   /\ worker'[w].attempts = 1
      ]_vars

\* The worker launched with no identifier has failed without a query, and the
\* worker launched with one is running the trial it named.
C16_Witness ==
    /\ worker["w2"].pc = "FAILED"
    /\ worker["w2"].raised = "AssertionError"
    /\ worker["w2"].attempts = 0
    /\ worker["w1"].pc = "RUNNING"
    /\ worker["w1"].trial.id = 1

\* The first sequence is the beginning of the second.
IsPrefix(a, b) == Len(a) <= Len(b) /\ SubSeq(b, 1, Len(a)) = a

\* C17: every step leaves the documents of db.trials, db.results and db.stop in
\* place and unchanged, new documents being added at the end only; a step that
\* adds to db.trials or db.stop is the end of an enqueue_trial or
\* add_for_stopping call of the controller and changes no worker; a step that
\* adds to db.results is the insert of a worker's send_metrics call and changes
\* nothing of the controller.
C17_CollectionsAppendOnly ==
    [][ /\ IsPrefix(trials, trials')
        /\ IsPrefix(results, results')
        /\ IsPrefix(stop, stop')
        /\ trials' # trials
           => (ctl_pc = "idle" /\ ctl_result'.op = "enqueue_trial" /\ worker' = worker)
        /\ stop' # stop
           => (ctl_pc = "idle" /\ ctl_result'.op = "add_for_stopping" /\ worker' = worker)
        /\ results' # results
           => /\ \E w \in Workers :
                    worker[w].pc = "RUNNING" /\ worker'[w].pc = "send_metrics"
              /\ UNCHANGED <<ctl_pc, ctl_result, collected_results, cursor,
                             new_results, delivered, mongo_process>>
      ]_vars

\* Every kind of operation has acted: a trial was enqueued, two records were
\* inserted, one of them was collected, and a worker was cancelled by a stop
\* request.
C17_Witness ==
    /\ trials # << >>
    /\ Len(results) = 2
    /\ stop # << >>
    /\ Len(collected_results) = 1
    /\ \E w \in Workers : worker[w].pc = "CANCELLED"

\* C18: a step that adds a stop request changes db.stop and the outcome of the
\* controller's call and nothing else: no worker, no other collection.  What a
\* get_trial call does is the same whether or not its trial is marked: it
\* returns the Trial exactly when db.trials has a document for the id, and it
\* never ends as cancelled.  A worker becomes cancelled only in a step that ends
\* a send_metrics call of its own, so a worker that calls send_metrics no more
\* is never cancelled, marked or not.
C18_StopSeenOnlyBySendMetrics ==
    [][ /\ stop' # stop
           => UNCHANGED <<trials, results, worker, mongo_process, collected_results,
                          ctl_pc, cursor, new_results, new_ids, seen_before,
                          delivered, enqueued, session>>
        /\ \A w \in Workers :
              /\ ( /\ InGetTrial(w)
                   /\ worker'[w] # worker[w]
                   /\ worker'[w].raised # "AssertionError" )
                 => /\ worker'[w].pc # "CANCELLED"
                    /\ worker'[w].pc = "RUNNING" <=> ~ NoTrialRequest(worker'[w].trial_id)
                    /\ worker'[w].pc = "RUNNING"
                       => /\ worker'[w].raised = "None"
                          /\ worker'[w].trial.id = worker'[w].trial_id
              /\ worker[w].pc # "send_metrics"
                 => (worker'[w].pc = "CANCELLED" <=> worker[w].pc = "CANCELLED")
      ]_vars

\* A worker holds the Trial that get_trial returned, its trial is marked for
\* stopping, and it has sent no metrics: no record of the trial is in the store.
C18_Witness ==
    \E w \in Workers :
        /\ worker[w].pc = "RUNNING"
        /\ Marked(worker[w].trial.id)
        /\ \A k \in DOMAIN results : results[k].trial_id # worker[w].trial.id

\* C19: as long as mongo_process is None (start has not launched a process), no
\* step changes db.trials, db.stop or collected_results, opens the cursor on
\* db.results or returns a record, and every call of get_new_results,
\* enqueue_trial or add_for_stopping ends in check_db_status, with the
\* AttributeError of None.poll(), before any insert_one; this is so whatever the
\* store holds and while workers go on using it.
C19_NoStoreAccessBeforeStart ==
    [][ mongo_process = None
        => /\ UNCHANGED <<trials, stop, collected_results, cursor, new_results,
                          new_ids, delivered, enqueued>>
           /\ ctl_pc' # "get_new_results"
           /\ ( /\ ctl_result' # ctl_result
                /\ ctl_result'.op \in {"get_new_results", "enqueue_trial",
                                       "add_for_stopping"} )
              => /\ ctl_result'.raised = "AttributeError"
                 /\ ctl_result'.inserts = 0
                 /\ ctl_result'.status = << >>
                 /\ ctl_pc' = "idle"
      ]_vars

\* On a session that was constructed and not started, enqueue_trial has failed
\* in the check while the store, which holds the documents of an earlier run,
\* was being used by a worker that has inserted a record.
C19_Witness ==
    /\ mongo_process = None
    /\ ctl_result = Outcome("enqueue_trial", "AttributeError", << >>)
    /\ Len(trials) = 1
    /\ Len(results) = 2
    /\ collected_results = << >>

====
